---- MODULE Spec2Model ----
(***************************************************************************)
(* extract_internal_signals.py: a one-pass pipeline that reads a Verilog /  *)
(* SystemVerilog module file, resolves the module name, extracts the       *)
(* internal "wire" and "reg" declarations with three regular expressions,  *)
(* deduplicates the names and writes a CSV file and a text report.         *)
(*                                                                         *)
(* Text is modelled as a sequence of one-character strings, so that the    *)
(* regular expressions are evaluated character by character.               *)
(***************************************************************************)
EXTENDS Integers, Sequences, FiniteSets, TLC

(***************************************************************************)
(* Character classes of the three patterns (lines 119, 122, 126).          *)
(***************************************************************************)
LowerCase ==
    {"a","b","c","d","e","f","g","h","i","j","k","l","m",
     "n","o","p","q","r","s","t","u","v","w","x","y","z"}

UpperCase ==
    {"A","B","C","D","E","F","G","H","I","J","K","L","M",
     "N","O","P","Q","R","S","T","U","V","W","X","Y","Z"}

Digits ==
    {"0","1","2","3","4","5","6","7","8","9"}

\* \s of a str pattern (the vertical tab has no TLA+ escape and is left out)
WhiteSpace ==
    {" ", "\t", "\n", "\r", "\f"}

\* [ ]
SpaceOnly ==
    {" "}

\* the grave accent, which a TLA+ string cannot hold, as a character of its own
GraveAccent ==
    "grave"

\* the class inside a bracketed dimension (line 122): grave accent, a-z, A-Z,
\* 0-9, underscore, minus, plus, colon, star, slash, space
DimChars ==
    LowerCase \cup UpperCase \cup Digits
        \cup {GraveAccent, "_", "-", "+", ":", "*", "/", " "}

\* [a-zA-Z\_0-9\$]            (a signal name, line 122)
SignalNameChars ==
    LowerCase \cup UpperCase \cup Digits \cup {"_", "$"}

\* [a-zA-Z\_0-9]              (a module name, line 126)
ModuleNameChars ==
    LowerCase \cup UpperCase \cup Digits \cup {"_"}

\* (?: |/|[a-zA-Z\_])         (what may not precede "module", line 126)
ModuleLookBehindChars ==
    {" ", "/", "_"} \cup LowerCase \cup UpperCase

(***************************************************************************)
(* String literals of the program, as character sequences.                 *)
(***************************************************************************)
StrWire ==
    <<"w","i","r","e">>

StrReg ==
    <<"r","e","g">>

StrInput ==
    <<"i","n","p","u","t">>

StrOutput ==
    <<"o","u","t","p","u","t">>

StrModule ==
    <<"m","o","d","u","l","e">>

StrPrefix ==
    <<"$","[","P","R","E","F","I","X","]">>

StrCsvSuffix ==
    <<"_","i","n","t","e","r","n","a","l","_","s","i","g","n","a","l","s",".","c","s","v">>

StrTxtSuffix ==
    <<"_","i","n","t","e","r","n","a","l","_","s","i","g","n","a","l","s",".","t","x","t">>

StrCsvHeaderRow ==
    <<"F","i","e","l","d"," ","N","a","m","e",",",
      "F","i","e","l","d"," ","D","i","m","e","n","s","i","o","n">>

\* the maximum number of white spaces expected between the port type and the keyword
maxNumWhiteSpaces ==
    16

(***************************************************************************)
(* Regular-expression primitives.  Positions are 1-based; a position p     *)
(* stands for "before character p", so Len(t)+1 is the end of the text.    *)
(***************************************************************************)
RECURSIVE SkipClass(_, _, _)
\* the position after the longest run of characters of class S that starts at p
SkipClass(t, p, S) ==
    IF p <= Len(t) /\ t[p] \in S THEN SkipClass(t, p + 1, S) ELSE p

\* the literal lit stands at position p
LiteralAt(t, p, lit) ==
    /\ p >= 1
    /\ p + Len(lit) - 1 <= Len(t)
    /\ SubSeq(t, p, p + Len(lit) - 1) = lit

\* the look-behind body  lit\s{i}  matches the text that ends just before p
PrecededBy(t, p, lit, i) ==
    /\ LiteralAt(t, p - i - Len(lit), lit)
    /\ \A j \in (p - i)..(p - 1) : t[j] \in WhiteSpace

\* lexicographic "at least" on two rank tuples of the same length: the order in
\* which a backtracking matcher tries its alternatives (greedy = larger first)
RECURSIVE RankGE(_, _)
RankGE(x, y) ==
    IF x = <<>> THEN TRUE
    ELSE IF Head(x) # Head(y) THEN Head(x) > Head(y)
    ELSE RankGE(Tail(x), Tail(y))

\* the alternative a backtracking matcher finds first
FirstTried(cands) ==
    CHOOSE x \in cands : \A y \in cands : RankGE(x.rank, y.rank)

NoMatch ==
    [ok |-> FALSE]

(***************************************************************************)
(* The wire / register pattern (lines 115-125, 127-128):                   *)
(*   (?<!input\s{i})(?<!output\s{i}) for i = 0..16, then                   *)
(*   KEYWORD \s* ( \[ DimChars+ \] [ ]* ){0,2} \s+ ( SignalNameChars+ )    *)
(*   \s* ;?                                                                *)
(***************************************************************************)
\* a variant of LookBehindOk whose loop stops one short: range(0, maxNumWhiteSpaces)
LookBehindOk_OneShort(t, p) ==
    \A i \in 0..(maxNumWhiteSpaces - 1) :
        /\ ~PrecededBy(t, p, StrInput, i)
        /\ ~PrecededBy(t, p, StrOutput, i)

\* the loop of lines 118-119: none of the 2 * 17 negative look-behinds matches
LookBehindOk(t, p) ==
    \A i \in 0..maxNumWhiteSpaces :
        /\ ~PrecededBy(t, p, StrInput, i)
        /\ ~PrecededBy(t, p, StrOutput, i)

\* \[ DimChars+ \] at p: the position after the closing bracket, 0 if none.
\* DimChars holds no bracket, so only the longest run can be followed by "]".
DimEnd(t, p) ==
    IF p <= Len(t) /\ t[p] = "["
    THEN LET c == SkipClass(t, p + 1, DimChars)
         IN  IF c > p + 1 /\ c <= Len(t) /\ t[c] = "]" THEN c + 1 ELSE 0
    ELSE 0

\* the ends of a greedy run of class S from p that backtracking may settle on
StarEnds(t, p, S) ==
    p..SkipClass(t, p, S)

\* \s+ from q followed by a first character of the signal name: where the name starts
NameStarts(t, q) ==
    {w \in (q + 1)..SkipClass(t, q, WhiteSpace) :
        w <= Len(t) /\ t[w] \in SignalNameChars}

\* Every way the pattern's part after the keyword can match from k, up to the
\* start of the name.  rank = <<end of \s*, iteration 1 taken, end of its [ ]*,
\* iteration 2 taken, end of its [ ]*, end of \s+>>: greedy quantifiers try the
\* larger value first.  dim is what group 1 holds: its last iteration, with the
\* spaces that iteration kept, and the empty string when it never took part.
DeclCandidates(t, k) ==
    LET A == StarEnds(t, k, WhiteSpace)
        Zero(a) ==
            {[rank |-> <<a, 0, 0, 0, 0, w>>, dim |-> <<>>, w |-> w] :
                w \in NameStarts(t, a)}
        One(a) ==
            IF DimEnd(t, a) = 0 THEN {}
            ELSE UNION {
                {[rank |-> <<a, 1, s1, 0, 0, w>>,
                  dim |-> SubSeq(t, a, s1 - 1), w |-> w] :
                    w \in NameStarts(t, s1)} :
                s1 \in StarEnds(t, DimEnd(t, a), SpaceOnly)}
        Two(a) ==
            IF DimEnd(t, a) = 0 THEN {}
            ELSE UNION {
                IF DimEnd(t, s1) = 0 THEN {}
                ELSE UNION {
                    {[rank |-> <<a, 1, s1, 1, s2, w>>,
                      dim |-> SubSeq(t, s1, s2 - 1), w |-> w] :
                        w \in NameStarts(t, s2)} :
                    s2 \in StarEnds(t, DimEnd(t, s1), SpaceOnly)} :
                s1 \in StarEnds(t, DimEnd(t, a), SpaceOnly)}
    IN  UNION {Zero(a) \cup One(a) \cup Two(a) : a \in A}

\* the keyword and what follows it, matched at p with the look-behinds left aside.
\* After the name nothing can fail, so the name, \s* and ;? take all they can.
DeclTailAt(t, p, kw) ==
    IF ~LiteralAt(t, p, kw) THEN NoMatch
    ELSE LET cands == DeclCandidates(t, p + Len(kw))
         IN  IF cands = {} THEN NoMatch
             ELSE LET c == FirstTried(cands)
                      e == SkipClass(t, c.w, SignalNameChars)
                      x == SkipClass(t, e, WhiteSpace)
                  IN  [ok     |-> TRUE,
                       start  |-> p,
                       end    |-> IF x <= Len(t) /\ t[x] = ";" THEN x + 1 ELSE x,
                       groups |-> <<c.dim, SubSeq(t, c.w, e - 1)>>]

\* one attempt of the compiled pattern at position p: the match object, if any
MatchDeclAt(t, p, kw) ==
    IF LiteralAt(t, p, kw) /\ LookBehindOk(t, p) THEN DeclTailAt(t, p, kw)
    ELSE NoMatch

(***************************************************************************)
(* The module-name pattern (line 126):                                     *)
(*   (?<!(?: |/|[a-zA-Z\_])) module \s+ (?:\$\[PREFIX\])?                  *)
(*   ( ModuleNameChars+ ) [\n\s]* #? [\n\s]* \(                            *)
(***************************************************************************)
\* a variant of ModuleLookBehindOk whose look-behind leaves the slash out
ModuleLookBehindOk_NoSlash(t, p) ==
    p = 1 \/ t[p - 1] \notin (ModuleLookBehindChars \ {"/"})

ModuleLookBehindOk(t, p) ==
    p = 1 \/ t[p - 1] \notin ModuleLookBehindChars

\* rank = <<end of \s+, prefix taken, end of the name, end of the first
\* [\n\s]*, "#" taken, end of the second [\n\s]*>>
ModuleCandidates(t, k) ==
    UNION {UNION {UNION {UNION {UNION {
        {[rank |-> <<w, pre, e, x, h, z>>,
          name |-> SubSeq(t, w + pre * Len(StrPrefix), e - 1),
          end  |-> z + 1] :
            z \in {zz \in StarEnds(t, x + h, WhiteSpace) :
                      zz <= Len(t) /\ t[zz] = "("}} :
        h \in {0} \cup (IF x <= Len(t) /\ t[x] = "#" THEN {1} ELSE {})} :
        x \in StarEnds(t, e, WhiteSpace)} :
        e \in (w + pre * Len(StrPrefix) + 1)
                ..SkipClass(t, w + pre * Len(StrPrefix), ModuleNameChars)} :
        pre \in {0} \cup (IF LiteralAt(t, w, StrPrefix) THEN {1} ELSE {})} :
        w \in (k + 1)..SkipClass(t, k, WhiteSpace)}

\* the keyword and what follows it, matched at p with the look-behind left aside
ModuleTailAt(t, p) ==
    IF ~LiteralAt(t, p, StrModule) THEN NoMatch
    ELSE LET cands == ModuleCandidates(t, p + Len(StrModule))
         IN  IF cands = {} THEN NoMatch
             ELSE LET c == FirstTried(cands)
                  IN  [ok |-> TRUE, start |-> p, end |-> c.end, groups |-> c.name]

MatchModuleAt(t, p) ==
    IF LiteralAt(t, p, StrModule) /\ ModuleLookBehindOk(t, p) THEN ModuleTailAt(t, p)
    ELSE NoMatch

(***************************************************************************)
(* re.findall: scan from the left; after a match go on at its end, else one *)
(* character further.  The result lists the groups of each match: a pair    *)
(* (dimension, name) for the two-group patterns, the name for the module    *)
(* pattern.  FindIter lists the match objects (start, end, groups).         *)
(***************************************************************************)
RECURSIVE FindIterDecl(_, _, _)
FindIterDecl(t, p, kw) ==
    IF p > Len(t) THEN <<>>
    ELSE LET m == MatchDeclAt(t, p, kw)
         IN  IF m.ok THEN <<m>> \o FindIterDecl(t, m.end, kw)
             ELSE FindIterDecl(t, p + 1, kw)

RECURSIVE FindIterModule(_, _)
FindIterModule(t, p) ==
    IF p > Len(t) THEN <<>>
    ELSE LET m == MatchModuleAt(t, p)
         IN  IF m.ok THEN <<m>> \o FindIterModule(t, m.end)
             ELSE FindIterModule(t, p + 1)

GroupsOf(ms) ==
    [i \in 1..Len(ms) |-> ms[i].groups]

\* re.findall(internalWiresPattern, text) / re.findall(internalRegsPattern, text)
FindAllDecl(t, kw) ==
    GroupsOf(FindIterDecl(t, 1, kw))

\* re.findall(moduleNamePattern, text)
FindAllModule(t) ==
    GroupsOf(FindIterModule(t, 1))

(***************************************************************************)
(* Message and report templates (lines 14-62), as far as the files and the *)
(* console tags need them.                                                 *)
(***************************************************************************)
\* the width of the rule of "=" in internalWiresHeader / internalRegsHeader
HeaderRuleWidth ==
    75

HeaderRule ==
    [i \in 1..HeaderRuleWidth |-> "="]

StrInternalWiresOf ==
    <<"\t","\t","I","n","t","e","r","n","a","l"," ","W","i","r","e","s"," ","o","f"," ">>

StrInternalRegistersOf ==
    <<"\t","\t","I","n","t","e","r","n","a","l"," ",
      "R","e","g","i","s","t","e","r","s"," ","o","f"," ">>

\* internalWiresHeader.format(f) + "\n\n", as its lines (each ended by "\n")
InternalWiresHeaderLines(f) ==
    << <<>>, <<>>, HeaderRule, StrInternalWiresOf \o f, HeaderRule, <<>> >>

\* internalRegsHeader.format(f) + "\n\n", as its lines
InternalRegsHeaderLines(f) ==
    << <<>>, <<>>, HeaderRule, StrInternalRegistersOf \o f, HeaderRule, <<>> >>

\* a variant of ReportLine with the two indices swapped
ReportLine_DimensionFirst(decl) ==
    decl[1] \o <<" ", " ", " ">> \o decl[2]

\* f"{decl[1]}   {decl[0]}" + "\n"   (lines 208, 217); decl = (dimension, name)
ReportLine(decl) ==
    decl[2] \o <<" ", " ", " ">> \o decl[1]

ReportLines(decls) ==
    [i \in 1..Len(decls) |-> ReportLine(decls[i])]

(***************************************************************************)
(* csv.writer with the default dialect: fields joined by ",", a field that  *)
(* holds a comma, a quote or a line break is quoted, quotes doubled.        *)
(***************************************************************************)
RECURSIVE DoubleQuotes(_)
DoubleQuotes(f) ==
    IF f = <<>> THEN <<>>
    ELSE (IF Head(f) = "\"" THEN <<"\"", "\"">> ELSE <<Head(f)>>)
            \o DoubleQuotes(Tail(f))

CsvField(f) ==
    IF \E i \in 1..Len(f) : f[i] \in {",", "\"", "\r", "\n"}
    THEN <<"\"">> \o DoubleQuotes(f) \o <<"\"">>
    ELSE f

\* writer.writerow([key, value])
CsvRow(key, value) ==
    CsvField(key) \o <<",">> \o CsvField(value)

(***************************************************************************)
(* A dict in insertion order: a sequence of <<key, value>> with distinct    *)
(* keys.  d[k] = v replaces the value of a present key in place and appends *)
(* a new key.                                                              *)
(***************************************************************************)
\* a variant of DictSet that keeps the value a key already has (first write wins)
DictSet_KeepFirst(d, k, v) ==
    IF \E i \in 1..Len(d) : d[i][1] = k THEN d ELSE Append(d, <<k, v>>)

DictSet(d, k, v) ==
    IF \E i \in 1..Len(d) : d[i][1] = k
    THEN [i \in 1..Len(d) |-> IF d[i][1] = k THEN <<k, v>> ELSE d[i]]
    ELSE Append(d, <<k, v>>)

\* the loop of lines 190-193 from index i (1-based) to n over internalSignals
RECURSIVE FillDict(_, _, _, _)
FillDict(d, signals, i, n) ==
    IF i > n THEN d
    ELSE FillDict(DictSet(d, signals[i][2], signals[i][1]), signals, i + 1, n)

\* the loops of lines 162-164 and 173-175: the names of the first n declarations
NamesOf(decls, n) ==
    [i \in 1..n |-> decls[i][2]]

SeqToSet(q) ==
    {q[i] : i \in 1..Len(q)}

\* list(set(names)): the distinct names, in an order the hash seed decides
ListOfSet(S) ==
    {q \in [1..Cardinality(S) -> S] : \A i, j \in 1..Cardinality(S) : i # j => q[i] # q[j]}

(***************************************************************************)
(* The inputs: the command line, the file system and the file's text.      *)
(***************************************************************************)
\* at most this many declaration statements in an aggregation text
MaxDecls ==
    3

\* at most this many white-space characters between a prefix and the keyword
MaxSpaces ==
    17

\* the path given after --filename
ModulePath ==
    <<"m", ".", "v">>

Run(c, k) ==
    [i \in 1..k |-> c]

RECURSIVE Concats(_, _)
\* the concatenations of at most n members of S
Concats(S, n) ==
    IF n = 0 THEN {<<>>}
    ELSE LET prev == Concats(S, n - 1)
         IN  prev \cup {x \o y : x \in prev, y \in S}

\* "wire a;", "reg [3:0] b;", ...: one declaration per line
DeclStatements ==
    {kw \o dim \o <<" ">> \o name \o <<";", "\n">> :
        kw \in {StrWire, StrReg},
        dim \in {<<>>, <<" ", "[", "3", ":", "0", "]">>},
        name \in {<<"a">>, <<"b">>}}

\* texts of up to MaxDecls declarations: repeated names within and across kinds
AggregationTexts ==
    Concats(DeclStatements, MaxDecls)

DeclPrefixes ==
    {<<>>, StrInput, StrOutput, <<"m", "y">>, <<";">>}

DeclGaps ==
    {Run(c, k) : c \in {" ", "\t"}, k \in 0..MaxSpaces}

DeclTails ==
    {<<" ","x",";">>,
     <<" ","[","7",":","0","]"," ","x",";">>,
     <<"[","7",":","0","]","[","3",":","0","]"," ","x">>,
     <<" ","[","7",":","0","]"," ","[","3",":","0","]"," "," ","y",";">>,
     <<" ","w","i","r","e"," ","x">>,
     <<" ","x",";"," ","w","i","r","e"," ","y",";"," ","r","e","g"," ","z">>,
     <<"x",";">>,
     <<" ","[","1","]","[","2","]","[","3","]"," ","x",";">>}

\* one keyword after a prefix and a gap, followed by a declaration tail
MatcherTexts ==
    {pre \o gap \o kw \o tail :
        pre \in DeclPrefixes, gap \in DeclGaps,
        kw \in {StrWire, StrReg}, tail \in DeclTails}

HeaderLeads ==
    {<<>>,
     <<" ">>,
     <<"\t">>,
     <<"\n">>,
     <<"/">>,
     <<"/","/">>,
     <<"s","u","b">>,
     <<"_">>,
     <<";">>,
     <<"1">>}

Headers ==
    {<<"m","o","d","u","l","e"," ","f","o","o"," ","(">>,
     <<"m","o","d","u","l","e"," ","f","o","o","#","(">>,
     <<"m","o","d","u","l","e"," "," ","$","[","P","R","E","F","I","X","]","f","o","o"," ","\n","(">>,
     <<"m","o","d","u","l","e"," ","f","o","o">>,
     <<"m","o","d","u","l","e","f","o","o"," ","(">>,
     <<"m","o","d","u","l","e"," ","f","o","o"," ","\n","#","\n"," ","(">>}

HeaderSeconds ==
    {<<>>,
     <<"\n","m","o","d","u","l","e"," ","b","a","r","(">>,
     <<" ","m","o","d","u","l","e"," ","b","a","r","(">>,
     <<"\n","e","n","d","m","o","d","u","l","e">>}

HeaderBodies ==
    {<<>>,
     <<")",";","w","i","r","e"," ","a",";">>,
     <<")",";"," ","w","i","r","e"," ","a",";"," ","r","e","g"," ","[","3",":","0","]"," ","b",";","\n">>}

\* a module header after a lead, perhaps a second header, perhaps a body
ModuleTexts ==
    {lead \o hdr \o second \o body :
        lead \in HeaderLeads, hdr \in Headers,
        second \in HeaderSeconds, body \in HeaderBodies}

SourceTexts ==
    AggregationTexts \cup MatcherTexts \cup ModuleTexts

\* sys.argv: no argument, --filename ModulePath, or what argparse rejects / -h
ArgvKinds ==
    {"none", "filename", "invalid"}

\* open() raises, read() raises, or both succeed
ReadKinds ==
    {"ok", "open_error", "read_error"}

Environments ==
    {[argv |-> "filename", isfile |-> TRUE, readable |-> "ok", contents |-> t] :
        t \in SourceTexts}
    \cup {[argv |-> a, isfile |-> TRUE, readable |-> r, contents |-> t] :
        a \in ArgvKinds, r \in ReadKinds, t \in Concats(DeclStatements, 1)}
    \cup {[argv |-> a, isfile |-> FALSE, readable |-> "open_error", contents |-> <<>>] :
        a \in ArgvKinds}

(***************************************************************************)
(* The state: the environment of the run, the position in the script, the  *)
(* script's variables, the console and the files written.                  *)
(***************************************************************************)
VARIABLES
    argv,                \* sys.argv, by kind
    isfile,              \* os.path.isfile(ModulePath)
    readable,            \* how open() and read() of the file end
    fileContents,        \* the text of the file
    pc,                  \* the next step of the script, or how the run ended
    bound,               \* the names bound so far among those bound conditionally
    console,             \* the messages printed
    files,               \* the files opened for writing, in order, with their lines
    moduleFileName,
    moduleContents,
    moduleName,
    internalWiresFound,
    internalWires,
    numInternalWires,
    internalRegsFound,
    internalRegs,
    numInternalRegs,
    numInternalSignals,
    internalRegNames,
    numUniqueRegNames,
    internalWireNames,
    numUniqueWireNames,
    numUniqueSignalNames,
    internalSignalsDict

envVars ==
    <<argv, isfile, readable, fileContents>>

matchVars ==
    <<internalWiresFound, internalWires, numInternalWires,
      internalRegsFound, internalRegs, numInternalRegs>>

countVars ==
    <<numInternalSignals, internalRegNames, numUniqueRegNames,
      internalWireNames, numUniqueWireNames, numUniqueSignalNames>>

vars ==
    <<argv, isfile, readable, fileContents, pc, bound, console, files,
      moduleFileName, moduleContents, moduleName,
      internalWiresFound, internalWires, numInternalWires,
      internalRegsFound, internalRegs, numInternalRegs, numInternalSignals,
      internalRegNames, numUniqueRegNames, internalWireNames, numUniqueWireNames,
      numUniqueSignalNames, internalSignalsDict>>

\* print(msg.format(args))
Msg(tag, args) ==
    [msg |-> tag, args |-> args]

Printed(tag) ==
    \E i \in 1..Len(console) : console[i].msg = tag

\* the ways a run ends: exit(), an uncaught exception, the last line
Terminal ==
    {"exited", "crashed", "done"}

\* A name that is not bound yet holds an empty placeholder that no step reads:
\* reading a name outside `bound' is the NameError of CountSignals.
Init ==
    /\ \E e \in Environments :
        /\ argv = e.argv
        /\ isfile = e.isfile
        /\ readable = e.readable
        /\ fileContents = e.contents
    /\ pc = "parse_args"
    /\ bound = {}
    /\ console = <<>>
    /\ files = <<>>
    /\ moduleFileName = <<>>
    /\ moduleContents = <<>>
    /\ moduleName = <<>>
    /\ internalWiresFound = FALSE
    /\ internalWires = <<>>
    /\ numInternalWires = 0
    /\ internalRegsFound = FALSE
    /\ internalRegs = <<>>
    /\ numInternalRegs = 0
    /\ numInternalSignals = 0
    /\ internalRegNames = <<>>
    /\ numUniqueRegNames = 0
    /\ internalWireNames = <<>>
    /\ numUniqueWireNames = 0
    /\ numUniqueSignalNames = 0
    /\ internalSignalsDict = <<>>

\* line 71, parseArguments (65-68): argparse itself exits on -h and on what it
\* does not accept
ParseArguments ==
    /\ pc = "parse_args"
    /\ IF argv = "invalid"
       THEN /\ pc' = "exited"
            /\ console' = Append(console, Msg("argparse", <<>>))
       ELSE /\ pc' = "check_args"
            /\ UNCHANGED console
    /\ UNCHANGED <<envVars, bound, files, moduleFileName, moduleContents, moduleName,
                   matchVars, countVars, internalSignalsDict>>

\* lines 72-75
CheckArguments ==
    /\ pc = "check_args"
    /\ IF argv = "none"
       THEN /\ pc' = "exited"
            /\ console' = Append(console, Msg("noArgsMsg", <<>>))
            /\ UNCHANGED moduleFileName
       ELSE /\ pc' = "check_file"
            /\ moduleFileName' = ModulePath
            /\ UNCHANGED console
    /\ UNCHANGED <<envVars, bound, files, moduleContents, moduleName,
                   matchVars, countVars, internalSignalsDict>>

\* lines 78-80
CheckFile ==
    /\ pc = "check_file"
    /\ IF isfile = FALSE
       THEN /\ pc' = "exited"
            /\ console' = Append(console, Msg("noSuchFileMsg", <<moduleFileName>>))
       ELSE /\ pc' = "read_file"
            /\ UNCHANGED console
    /\ UNCHANGED <<envVars, bound, files, moduleFileName, moduleContents, moduleName,
                   matchVars, countVars, internalSignalsDict>>

\* a variant of ReadFile whose except clause prints the error and does not exit
ReadFile_NoExit ==
    /\ pc = "read_file"
    /\ IF readable = "open_error"
       THEN /\ pc' = "crashed"
            /\ console' = Append(console, Msg("Traceback", <<"OSError">>))
            /\ UNCHANGED moduleContents
       ELSE IF readable = "read_error"
       THEN /\ pc' = "module_name"
            /\ console' = Append(console, Msg("fileReadError", <<>>))
            /\ moduleContents' = fileContents
       ELSE /\ pc' = "module_name"
            /\ moduleContents' = fileContents
            /\ console' = Append(console, Msg("fileReadSuccess", <<>>))
    /\ UNCHANGED <<envVars, bound, files, moduleFileName, moduleName,
                   matchVars, countVars, internalSignalsDict>>

\* lines 83-89: open() is outside the try, read() inside it
ReadFile ==
    /\ pc = "read_file"
    /\ IF readable = "open_error"
       THEN /\ pc' = "crashed"
            /\ console' = Append(console, Msg("Traceback", <<"OSError">>))
            /\ UNCHANGED moduleContents
       ELSE IF readable = "read_error"
       THEN /\ pc' = "exited"
            /\ console' = Append(console, Msg("fileReadError", <<>>))
            /\ UNCHANGED moduleContents
       ELSE /\ pc' = "module_name"
            /\ moduleContents' = fileContents
            /\ console' = Append(console, Msg("fileReadSuccess", <<>>))
    /\ UNCHANGED <<envVars, bound, files, moduleFileName, moduleName,
                   matchVars, countVars, internalSignalsDict>>

\* lines 131-137
ExtractModuleName ==
    /\ pc = "module_name"
    /\ LET matches == FindAllModule(moduleContents)
       IN  IF Len(matches) # 1
           THEN /\ moduleName' = StrModule
                /\ console' = Append(console,
                                     Msg("moduleNameNotIdentified", <<StrModule>>))
           ELSE /\ moduleName' = matches[1]
                /\ UNCHANGED console
    /\ pc' = "wires"
    /\ UNCHANGED <<envVars, bound, files, moduleFileName, moduleContents,
                   matchVars, countVars, internalSignalsDict>>

\* lines 140-147: internalWires and numInternalWires are bound only on a match
ExtractWires ==
    /\ pc = "wires"
    /\ LET matches == FindAllDecl(moduleContents, StrWire)
       IN  IF Len(matches) = 0
           THEN /\ internalWiresFound' = FALSE
                /\ console' = Append(console, Msg("noInternalWiresIdentified", <<>>))
                /\ UNCHANGED <<internalWires, numInternalWires, bound>>
           ELSE /\ internalWiresFound' = TRUE
                /\ internalWires' = matches
                /\ numInternalWires' = Len(matches)
                /\ bound' = bound \cup {"internalWires", "numInternalWires"}
                /\ UNCHANGED console
    /\ pc' = "regs"
    /\ UNCHANGED <<envVars, files, moduleFileName, moduleContents, moduleName,
                   internalRegsFound, internalRegs, numInternalRegs,
                   countVars, internalSignalsDict>>

\* lines 150-157: internalRegs and numInternalRegs are bound only on a match
ExtractRegs ==
    /\ pc = "regs"
    /\ LET matches == FindAllDecl(moduleContents, StrReg)
       IN  IF Len(matches) = 0
           THEN /\ internalRegsFound' = FALSE
                /\ console' = Append(console, Msg("noInternalRegsIdentified", <<>>))
                /\ UNCHANGED <<internalRegs, numInternalRegs, bound>>
           ELSE /\ internalRegsFound' = TRUE
                /\ internalRegs' = matches
                /\ numInternalRegs' = Len(matches)
                /\ bound' = bound \cup {"internalRegs", "numInternalRegs"}
                /\ UNCHANGED console
    /\ pc' = "count"
    /\ UNCHANGED <<envVars, files, moduleFileName, moduleContents, moduleName,
                   internalWiresFound, internalWires, numInternalWires,
                   countVars, internalSignalsDict>>

\* line 159: numInternalRegs + numInternalWires reads both names; a name that was
\* never bound raises NameError, which nothing catches
CountSignals ==
    /\ pc = "count"
    /\ IF {"numInternalRegs", "numInternalWires"} \subseteq bound
       THEN /\ numInternalSignals' = numInternalRegs + numInternalWires
            /\ pc' = "unique"
            /\ UNCHANGED console
       ELSE /\ pc' = "crashed"
            /\ console' = Append(console, Msg("Traceback", <<"NameError">>))
            /\ UNCHANGED numInternalSignals
    /\ UNCHANGED <<envVars, bound, files, moduleFileName, moduleContents, moduleName,
                   matchVars, internalRegNames, numUniqueRegNames, internalWireNames,
                   numUniqueWireNames, numUniqueSignalNames, internalSignalsDict>>

\* a variant of UniqueNames without the two list(set(...)) conversions
UniqueNames_RawCounts ==
    /\ pc = "unique"
    /\ internalRegNames' = NamesOf(internalRegs, numInternalRegs)
    /\ numUniqueRegNames' = numInternalRegs
    /\ internalWireNames' = NamesOf(internalWires, numInternalWires)
    /\ numUniqueWireNames' = numInternalWires
    /\ numUniqueSignalNames' = numInternalWires + numInternalRegs
    /\ pc' = "csv"
    /\ UNCHANGED <<envVars, bound, console, files, moduleFileName, moduleContents,
                   moduleName, matchVars, numInternalSignals, internalSignalsDict>>

\* lines 161-184; internalSignalNames = internalWireNames + internalRegNames
UniqueNames ==
    /\ pc = "unique"
    /\ \E rn \in ListOfSet(SeqToSet(NamesOf(internalRegs, numInternalRegs))),
          wn \in ListOfSet(SeqToSet(NamesOf(internalWires, numInternalWires))) :
        /\ internalRegNames' = rn
        /\ numUniqueRegNames' = Len(rn)
        /\ internalWireNames' = wn
        /\ numUniqueWireNames' = Len(wn)
        /\ numUniqueSignalNames' = Len(wn \o rn)
    /\ pc' = "csv"
    /\ UNCHANGED <<envVars, bound, console, files, moduleFileName, moduleContents,
                   moduleName, matchVars, numInternalSignals, internalSignalsDict>>

\* lines 188-199
WriteCsv ==
    /\ pc = "csv"
    /\ LET internalSignals == internalWires \o internalRegs
           dict == FillDict(<<>>, internalSignals, 1, numInternalSignals)
           outputCsvFileName == moduleName \o StrCsvSuffix
       IN  /\ internalSignalsDict' = dict
           /\ files' = Append(files,
                  [name  |-> outputCsvFileName,
                   lines |-> <<StrCsvHeaderRow>>
                             \o [i \in 1..Len(dict) |-> CsvRow(dict[i][1], dict[i][2])]])
    /\ pc' = "report"
    /\ UNCHANGED <<envVars, bound, console, moduleFileName, moduleContents,
                   moduleName, matchVars, countVars>>

\* lines 203-225
WriteReport ==
    /\ pc = "report"
    /\ LET internalWiresStr ==
               IF internalWiresFound
               THEN InternalWiresHeaderLines(moduleFileName) \o ReportLines(internalWires)
               ELSE <<>>
           internalRegsStr ==
               IF internalRegsFound
               THEN InternalRegsHeaderLines(moduleFileName) \o ReportLines(internalRegs)
               ELSE <<>>
           outputStr == internalWiresStr \o internalRegsStr
           outputFileName == moduleName \o StrTxtSuffix
       IN  /\ files' = Append(files, [name |-> outputFileName, lines |-> outputStr])
           /\ console' = console \o
                  <<Msg("goodbyeMsg", <<outputFileName, moduleName \o StrCsvSuffix>>),
                    Msg("internalSignalsSummaryMsg",
                        <<moduleName, numUniqueWireNames, numUniqueRegNames,
                          numUniqueSignalNames>>)>>
    /\ pc' = "done"
    /\ UNCHANGED <<envVars, bound, moduleFileName, moduleContents, moduleName,
                   matchVars, countVars, internalSignalsDict>>

Next ==
    \/ ParseArguments
    \/ CheckArguments
    \/ CheckFile
    \/ ReadFile
    \/ ExtractModuleName
    \/ ExtractWires
    \/ ExtractRegs
    \/ CountSignals
    \/ UniqueNames
    \/ WriteCsv
    \/ WriteReport

Spec ==
    Init /\ [][Next]_vars

(***************************************************************************)
(* Properties.                                                             *)
(***************************************************************************)
RECURSIVE SortedSeq(_)
\* a finite set of integers as an increasing sequence
SortedSeq(S) ==
    IF S = {} THEN <<>>
    ELSE LET m == CHOOSE x \in S : \A y \in S : x <= y
         IN  <<m>> \o SortedSeq(S \ {m})

\* the steps that follow ExtractWires / ExtractRegs in a run
AfterWires ==
    pc \in {"regs", "count", "unique", "csv", "report", "done"}
        \/ (pc = "crashed" /\ Printed("fileReadSuccess"))

AfterRegs ==
    pc \in {"count", "unique", "csv", "report", "done"}
        \/ (pc = "crashed" /\ Printed("fileReadSuccess"))

\* the Declaration Matcher's output for a kind: the list the script goes on with
WireOutput ==
    IF internalWiresFound THEN internalWires ELSE <<>>

RegOutput ==
    IF internalRegsFound THEN internalRegs ELSE <<>>

\* the occurrences of the keyword that a well-formed declaration tail follows
Occurrences(t, kw) ==
    {p \in 1..Len(t) : DeclTailAt(t, p, kw).ok}

\* ... that no "input" / "output" and 0 to 16 white-space characters precede
NotPortOccurrences(t, kw) ==
    {p \in Occurrences(t, kw) :
        \A k \in 0..16 : \A lit \in {StrInput, StrOutput} :
            ~(/\ p - k - Len(lit) >= 1
              /\ SubSeq(t, p - k - Len(lit), p - k - 1) = lit
              /\ \A j \in (p - k)..(p - 1) : t[j] \in WhiteSpace)}

\* the (dimension, name) pairs of the occurrences P, in source order
DeclsAt(t, kw, P) ==
    LET ps == SortedSeq(P)
    IN  [i \in 1..Len(ps) |-> DeclTailAt(t, ps[i], kw).groups]

\* occurrence p lies inside the text an occurrence of R before it consumed
Consumed(t, kw, R, p) ==
    \E q \in R : q < p /\ p < DeclTailAt(t, q, kw).end

\* the output lists exactly the occurrences P
Reports(out, t, kw, P) ==
    out = DeclsAt(t, kw, P)

\* the output lists the not-port occurrences that no earlier reported one consumed
ReportsUnconsumed(out, t, kw) ==
    \E R \in SUBSET NotPortOccurrences(t, kw) :
        /\ \A p \in NotPortOccurrences(t, kw) : p \in R <=> ~Consumed(t, kw, R, p)
        /\ Reports(out, t, kw, R)

TokenEnd(t, p) ==
    IF DimEnd(t, p) = 0 THEN p ELSE DimEnd(t, p)

\* all bracketed dimension tokens of the declaration whose keyword ends before k,
\* concatenated as they appear
AllDimensionTokens(t, k) ==
    LET a  == SkipClass(t, k, WhiteSpace)
        e1 == TokenEnd(t, a)
        b  == SkipClass(t, e1, SpaceOnly)
        e2 == IF e1 = a THEN b ELSE TokenEnd(t, b)
    IN  SubSeq(t, a, e1 - 1) \o SubSeq(t, b, e2 - 1)

\* the occurrences a run of re.finditer reports
ReportedStarts(t, kw) ==
    LET ms == FindIterDecl(t, 1, kw)
    IN  [i \in 1..Len(ms) |-> ms[i].start]

\* C6: the dimension of every reported declaration is the concatenation of all its
\* bracketed dimension tokens as they appear, and empty when it has none.
C6_DimensionIsAllTokens ==
    /\ AfterWires =>
        \A i \in 1..Len(WireOutput) :
            WireOutput[i][1] =
                AllDimensionTokens(moduleContents,
                    ReportedStarts(moduleContents, StrWire)[i] + Len(StrWire))
    /\ AfterRegs =>
        \A i \in 1..Len(RegOutput) :
            RegOutput[i][1] =
                AllDimensionTokens(moduleContents,
                    ReportedStarts(moduleContents, StrReg)[i] + Len(StrReg))

\* the occurrences whose keyword is not the tail of a longer word
StandaloneOccurrences(t, kw) ==
    {p \in Occurrences(t, kw) : p = 1 \/ t[p - 1] \notin SignalNameChars}

\* C10: every Declaration of the output comes from a standalone keyword, never
\* from a keyword that ends a longer identifier or word.
C10_KeywordIsStandalone ==
    /\ AfterWires =>
        \E R \in SUBSET StandaloneOccurrences(moduleContents, StrWire) :
            Reports(WireOutput, moduleContents, StrWire, R)
    /\ AfterRegs =>
        \E R \in SUBSET StandaloneOccurrences(moduleContents, StrReg) :
            Reports(RegOutput, moduleContents, StrReg, R)

\* the run has read the file and gone through the Module Name Resolver
AfterModuleName ==
    pc \in {"wires", "regs", "count", "unique", "csv", "report", "done"}
        \/ (pc = "crashed" /\ Printed("fileReadSuccess"))

\* the well-formed headers "module <id> (" whose keyword none of `excluded' precedes
HeadersNotAfter(t, excluded) ==
    {p \in 1..Len(t) :
        ModuleTailAt(t, p).ok /\ (p = 1 \/ t[p - 1] \notin excluded)}

\* with exactly one such header the resolver returns its identifier, without warning
ResolvesTheOnly(excluded) ==
    LET H == HeadersNotAfter(moduleContents, excluded)
    IN  (AfterModuleName /\ Cardinality(H) = 1) =>
            /\ \A p \in H : moduleName = ModuleTailAt(moduleContents, p).groups
            /\ ~Printed("moduleNameNotIdentified")

\* C4 as stated: with exactly one well-formed header whose keyword is not preceded
\* by a letter, an underscore or a slash (a space or a tab may precede it), the
\* resolver returns exactly its identifier and emits no ambiguity warning.
C4_OnlyHeaderResolved ==
    ResolvesTheOnly(LowerCase \cup UpperCase \cup {"_", "/"})

\* C4 amended: the same with "not preceded by a letter, an underscore, a slash or a
\* space character" (a tab, a line break, any other character or the start of the
\* text may precede the keyword).
C4_OnlyUnspacedHeaderResolved ==
    ResolvesTheOnly(LowerCase \cup UpperCase \cup {"_", "/", " "})

\* C4 witness: a header indented by a tab is the only one and is resolved to foo
C4_Witness ==
    /\ pc = "wires"
    /\ LiteralAt(moduleContents, 1, <<"\t">> \o StrModule)
    /\ Cardinality(HeadersNotAfter(moduleContents,
                                   LowerCase \cup UpperCase \cup {"_", "/", " "})) = 1
    /\ moduleName = <<"f", "o", "o">>
    /\ ~Printed("moduleNameNotIdentified")

\* the names of the files opened for writing
FileNames ==
    {files[i].name : i \in 1..Len(files)}

\* C5: with zero or several module-header matches the resolver warns, the module
\* identifier is "module", and the run is not aborted: it ends with the output
\* files module_internal_signals.csv and module_internal_signals.txt written.
C5_FallbackRunCompletes ==
    /\ (AfterModuleName /\ Len(FindAllModule(moduleContents)) # 1) =>
            /\ moduleName = StrModule
            /\ Printed("moduleNameNotIdentified")
    /\ (pc \in Terminal /\ Printed("moduleNameNotIdentified")) =>
            /\ pc = "done"
            /\ FileNames = {StrModule \o StrCsvSuffix, StrModule \o StrTxtSuffix}

\* the arguments of the summary printed last (module name, wires, registers, total)
Summary ==
    console[Len(console)].args

\* C2: a run that read its file and found no wire or no register declaration is
\* not ended by that: it reaches the last line with both files written (the CSV
\* with its header row) and reports a unique count of 0 for the empty kind.
C2_EmptyKindRunCompletes ==
    (/\ pc \in Terminal
     /\ Printed("fileReadSuccess")
     /\ (Printed("noInternalWiresIdentified") \/ Printed("noInternalRegsIdentified")))
    => /\ pc = "done"
       /\ Len(files) = 2
       /\ files[1].lines[1] = StrCsvHeaderRow
       /\ Printed("noInternalWiresIdentified") => Summary[2] = 0
       /\ Printed("noInternalRegsIdentified") => Summary[3] = 0

\* the fatal conditions, as the environment decides them
MissingArgument ==
    argv = "none"

FileNotFound ==
    argv = "filename" /\ ~isfile

ReadFailure ==
    argv = "filename" /\ isfile /\ readable # "ok"

\* C3: in a run with a fatal condition no output file is opened for writing at any
\* point, and the pipeline stops before the extraction steps.
C3_FatalBeforeOutput ==
    (MissingArgument \/ FileNotFound \/ ReadFailure) =>
        /\ Len(files) = 0
        /\ pc \in {"parse_args", "check_args", "check_file", "read_file",
                   "exited", "crashed"}

\* C3 witness: read() failed, the script printed the error and exited
C3_Witness ==
    /\ pc = "exited"
    /\ ReadFailure
    /\ Printed("fileReadError")
    /\ Len(files) = 0

\* the CSV file has been written
AfterCsv ==
    pc \in {"report", "done"}

\* the full wire list followed by the full register list
Concatenation ==
    internalWires \o internalRegs

\* the positions of the concatenation at which a name occurs for the first time
FirstOccurrences(decls) ==
    {i \in 1..Len(decls) : \A j \in 1..(i - 1) : decls[j][2] # decls[i][2]}

\* the dimension of the last occurrence of a name
LastDimension(decls, name) ==
    LET last == CHOOSE i \in 1..Len(decls) :
                    /\ decls[i][2] = name
                    /\ \A j \in (i + 1)..Len(decls) : decls[j][2] # name
    IN  decls[last][1]

\* C7: the mapping holds, for every name of the wire list followed by the register
\* list, the dimension of the name's last occurrence there; the CSV is the header
\* row and one data row "name,dimension" per distinct name, in the order of the
\* names' first occurrences.
C7_LastWriteWinsFirstSeenOrder ==
    AfterCsv =>
        LET first == SortedSeq(FirstOccurrences(Concatenation))
            csv   == files[1].lines
        IN  /\ Len(internalSignalsDict) = Len(first)
            /\ \A k \in 1..Len(first) :
                   internalSignalsDict[k] =
                       <<Concatenation[first[k]][2],
                         LastDimension(Concatenation, Concatenation[first[k]][2])>>
            /\ Len(csv) = 1 + Len(first)
            /\ csv[1] = StrCsvHeaderRow
            /\ \A k \in 1..Len(first) :
                   csv[k + 1] =
                       Concatenation[first[k]][2] \o <<",">>
                           \o LastDimension(Concatenation, Concatenation[first[k]][2])

\* C7 witness: "a" is a wire with a dimension, "b" a wire, then "a" a register
\* without one: the register's empty dimension wins and "a" keeps the first row
C7_Witness ==
    /\ pc = "done"
    /\ internalWires = << <<<<"[", "3", ":", "0", "]">>, <<"a">>>>, <<<<>>, <<"b">>>> >>
    /\ internalRegs = << <<<<>>, <<"a">>>> >>
    /\ files[1].lines = <<StrCsvHeaderRow, <<"a", ",">>, <<"b", ",">>>>

NamesIn(decls) ==
    {decls[i][2] : i \in 1..Len(decls)}

\* C8: in a successful run the reported unique wire (register) count is the number
\* of distinct names of the wire (register) list, the reported total is their sum,
\* and the total equals the number of CSV data rows exactly when no name is in both
\* lists.
C8_UniqueCounts ==
    pc = "done" =>
        /\ Summary[2] = Cardinality(NamesIn(internalWires))
        /\ Summary[3] = Cardinality(NamesIn(internalRegs))
        /\ Summary[4] = Summary[2] + Summary[3]
        /\ (Summary[4] = Len(files[1].lines) - 1)
               <=> (NamesIn(internalWires) \cap NamesIn(internalRegs) = {})

\* C8 witness: "a" twice as a register and once as a wire: counts 1, 1 and 2 from
\* three occurrences, and a single CSV data row
C8_Witness ==
    /\ pc = "done"
    /\ Len(internalRegs) = 2
    /\ NamesIn(internalRegs) = {<<"a">>}
    /\ NamesIn(internalWires) = {<<"a">>}
    /\ Summary[4] = 2
    /\ Len(files[1].lines) = 2

\* the number of lines among `lines' that are exactly `line'
CountLines(lines, line) ==
    Cardinality({i \in 1..Len(lines) : lines[i] = line})

\* the rows among `rows' that start with name and a comma
RowsOf(rows, name) ==
    {i \in 2..Len(rows) : LiteralAt(rows[i], 1, name \o <<",">>)}

\* C9: the report is the wires header (6 lines), one line "<name>   <dimension>"
\* per element of the raw wire list in source order, the registers header and one
\* such line per element of the raw register list, while every name has exactly one
\* CSV row.
C9_ReportListsRawOccurrences ==
    pc = "done" =>
        LET report == files[2].lines
            nw     == Len(internalWires)
            nr     == Len(internalRegs)
        IN  /\ Len(report) = 6 + nw + 6 + nr
            /\ report[4] = StrInternalWiresOf \o ModulePath
            /\ \A i \in 1..nw :
                   report[6 + i] =
                       internalWires[i][2] \o <<" ", " ", " ">> \o internalWires[i][1]
            /\ report[6 + nw + 4] = StrInternalRegistersOf \o ModulePath
            /\ \A i \in 1..nr :
                   report[12 + nw + i] =
                       internalRegs[i][2] \o <<" ", " ", " ">> \o internalRegs[i][1]
            /\ \A n \in NamesIn(Concatenation) :
                   Cardinality(RowsOf(files[1].lines, n)) = 1

\* C9 witness: "reg b;" twice after a wire: two equal report lines for b, one CSV
\* row for b
C9_Witness ==
    /\ pc = "done"
    /\ internalRegs = << <<<<>>, <<"b">>>>, <<<<>>, <<"b">>>> >>
    /\ CountLines(files[2].lines, <<"b", " ", " ", " ">>) = 2
    /\ Cardinality(RowsOf(files[1].lines, <<"b">>)) = 1

====
